---- MODULE Spec2Model ----
(***************************************************************************)
(* generate_icon.py: a script that creates the app-icon directory and, for *)
(* each size of a fixed list, draws a green disc on a transparent RGBA     *)
(* buffer, saves it as icon_<size>.png and prints "Created <path>"; it     *)
(* ends with one completion line.  The model is the script's control flow  *)
(* over an abstract filesystem (the directory chain and the files of the   *)
(* output directory) and the console.  An image is kept symbolically (its  *)
(* mode, size, background and the shapes drawn on it); a pixel is computed *)
(* from that description on demand.                                        *)
(***************************************************************************)
EXTENDS Integers, Sequences, FiniteSets, TLC

VARIABLES
    pc,        \* position of the script: which statement runs next
    run,       \* number of the current invocation of the script
    dirs,      \* how many leading components of icon_dir exist on disk
    fs,        \* file name in the output directory -> file content
    it,        \* items the for loop's iterator has handed out
    size,      \* the loop variable
    img,       \* the current image buffer
    filename,  \* the path computed for the current size
    stdout,    \* lines printed by this invocation
    err,       \* the statement whose exception ended this invocation
    written,   \* history: sizes whose img.save returned in this invocation
    mkCalls,   \* history: os.makedirs calls made by this invocation
    fs0,       \* history: fs when this invocation started
    dirs0,     \* history: dirs when this invocation started
    prevDone   \* history: fs at the end of the previous invocation, if it completed

vars == <<pc, run, dirs, fs, it, size, img, filename, stdout, err,
          written, mkCalls, fs0, dirs0, prevDone>>

(* ------------------------------ bounds --------------------------------- *)

\* Invocations of the script in succession.
MaxRuns == 2
\* Icon-named files already in the directory before the first invocation.
MaxStale == 1

(* ------------------------- program constants --------------------------- *)

\* icon_dir, by path component (os.makedirs creates them one by one).
DirParts == <<"MicOn", "Assets.xcassets", "AppIcon.appiconset">>

icon_dir == DirParts[1] \o "/" \o DirParts[2] \o "/" \o DirParts[3]

sizes == <<16, 32, 64, 128, 256, 512, 1024>>

green_color == <<52, 199, 89>>

\* The background passed to Image.new.
Transparent == <<0, 0, 0, 0>>

\* The two console texts.
CreatedPrefix == "Created "

DoneLine == "All icons generated successfully!"

(* ------------------------------ files ---------------------------------- *)

\* f"{icon_dir}/icon_{size}.png"
Filename(s) == icon_dir \o "/icon_" \o ToString(s) \o ".png"

\* What else may lie in the output directory: an icon of a size that is not
\* in the list, and a file that is no icon at all.
UnlistedName == Filename(48)

UnrelatedName == icon_dir \o "/Contents.json"

SizeSet == {sizes[k] : k \in 1..Len(sizes)}

IconNames == {Filename(s) : s \in SizeSet}

OtherNames == {UnlistedName, UnrelatedName}

Names == IconNames \cup OtherNames

Absent == [fmt |-> "absent"]

\* Content that some other program left behind.
Stale == [fmt |-> "other"]

\* What a write leaves that was opened (and so emptied) but not completed.
Truncated == [fmt |-> "truncated"]

DirExists == dirs = Len(DirParts)

(* ------------------------------ images --------------------------------- *)

NoImage == [mode |-> "none"]

\* Image.new(mode, (w, h), color): every pixel is color, nothing drawn yet.
ImageNew(mode, w, h, color) ==
    [mode |-> mode, width |-> w, height |-> h, bg |-> color, shapes |-> <<>>]

\* The ink a fill colour becomes on an image of the given mode: on RGBA, a
\* colour of three channels is given full alpha, one of four is taken as is.
Ink(mode, color) ==
    IF mode = "RGBA" /\ Len(color) = 3 THEN Append(color, 255) ELSE color

\* Variant of Margin100 with a slipped decimal point (size * 0.5): the box
\* shrinks to a point.
Margin100Typo(s) == s * 50

\* margin = size * 0.05, in hundredths of a pixel.
Margin100(s) == s * 5

\* [margin, margin, size - margin, size - margin] as the rasterizer takes it:
\* each coordinate cut to its integer part.
EllipseBox(s) ==
    LET lo == Margin100(s) \div 100
        hi == (s * 100 - Margin100(s)) \div 100
    IN  <<lo, lo, hi, hi>>

\* draw.ellipse(box, fill=color, outline=None)
Ellipse(im, box, color) ==
    [im EXCEPT !.shapes = Append(@, [box |-> box, ink |-> Ink(im.mode, color)])]

\* Where pixel (x, y) lies with respect to the disc inscribed in a square
\* box, in doubled coordinates about the box's centre: "in" and "out" are the
\* pixels every rasterization of the disc agrees on, "edge" the ring of
\* boundary pixels that the rasterizer decides.  Nothing outside the box is
\* touched.
Region(box, x, y) ==
    LET a  == box[3] - box[1]
        dx == 2 * x - (box[1] + box[3])
        dy == 2 * y - (box[2] + box[4])
        d2 == dx * dx + dy * dy
    IN  IF x < box[1] \/ x > box[3] \/ y < box[2] \/ y > box[4] THEN "out"
        ELSE IF d2 > (a + 2) * (a + 2) THEN "out"
        ELSE IF a >= 2 /\ d2 <= (a - 2) * (a - 2) THEN "in"
        ELSE "edge"

\* The values pixel (x, y) of im may have after its first n shapes.
RECURSIVE PixelAfter(_, _, _, _)
PixelAfter(im, n, x, y) ==
    IF n = 0 THEN {im.bg}
    ELSE LET below == PixelAfter(im, n - 1, x, y)
             r     == Region(im.shapes[n].box, x, y)
         IN  CASE r = "in"   -> {im.shapes[n].ink}
               [] r = "out"  -> below
               [] r = "edge" -> below \cup {im.shapes[n].ink}

\* img.getpixel((x, y)): the values the pixel may have.
GetPixel(im, x, y) == PixelAfter(im, Len(im.shapes), x, y)

\* img.save(..., 'PNG') stores the mode, the dimensions and the pixels;
\* opening the file gives them back.
PngEncode(im) ==
    [fmt |-> "PNG", width |-> im.width, height |-> im.height,
     mode |-> im.mode, bg |-> im.bg, shapes |-> im.shapes]

PngDecode(f) ==
    [mode |-> f.mode, width |-> f.width, height |-> f.height,
     bg |-> f.bg, shapes |-> f.shapes]

IsPng(f) == f.fmt = "PNG"

\* What an interrupted img.save may leave at a path that held old: the failure
\* either precedes the opening of the file (old stays), or follows it, and
\* then the file is left emptied or partly written unless the library removes
\* the file it had itself created.
LeftBehind(old) == {old, Truncated}

(* -------------------------------- Init --------------------------------- *)

\* The directory chain may be absent, partial or complete; a complete one may
\* hold an unrelated file and up to MaxStale icon-named files.
InitFs(d) ==
    IF d < Len(DirParts)
    THEN {[n \in Names |-> Absent]}
    ELSE {f \in [Names -> {Absent, Stale}] :
            Cardinality({n \in Names \ {UnrelatedName} : f[n] # Absent}) <= MaxStale}

Init ==
    /\ pc = "makedirs"
    /\ run = 1
    /\ dirs \in 0..Len(DirParts)
    /\ fs \in InitFs(dirs)
    /\ it = 0
    /\ size = 0
    /\ img = NoImage
    /\ filename = ""
    /\ stdout = <<>>
    /\ err = "none"
    /\ written = <<>>
    /\ mkCalls = 0
    /\ fs0 = fs
    /\ dirs0 = dirs
    /\ prevDone = {}

(* ------------------------------- actions ------------------------------- *)

\* Variant of MakeDirs that goes on without creating anything.
MakeDirsNoCreate ==
    /\ pc = "makedirs"
    /\ mkCalls' = mkCalls + 1
    /\ pc' = "for"
    /\ UNCHANGED <<run, dirs, fs, it, size, img, filename, stdout, err,
                   written, fs0, dirs0, prevDone>>

\* os.makedirs(icon_dir, exist_ok=True) returns: every component exists.
MakeDirs ==
    /\ pc = "makedirs"
    /\ dirs' = Len(DirParts)
    /\ mkCalls' = mkCalls + 1
    /\ pc' = "for"
    /\ UNCHANGED <<run, fs, it, size, img, filename, stdout, err,
                   written, fs0, dirs0, prevDone>>

\* Variant of MakeDirsFail without exist_ok=True: an existing directory
\* raises too.
MakeDirsFailNoExistOk ==
    /\ pc = "makedirs"
    /\ \E j \in dirs..Len(DirParts) : dirs' = j /\ (j = Len(DirParts) => DirExists)
    /\ mkCalls' = mkCalls + 1
    /\ pc' = "aborted"
    /\ err' = "makedirs"
    /\ UNCHANGED <<run, fs, it, size, img, filename, stdout,
                   written, fs0, dirs0, prevDone>>

\* os.makedirs raises: only the creation of a missing component can fail
\* (an existing leaf is accepted by exist_ok); components created before the
\* failing one stay.
MakeDirsFail ==
    /\ pc = "makedirs"
    /\ ~DirExists
    /\ \E j \in dirs..(Len(DirParts) - 1) : dirs' = j
    /\ mkCalls' = mkCalls + 1
    /\ pc' = "aborted"
    /\ err' = "makedirs"
    /\ UNCHANGED <<run, fs, it, size, img, filename, stdout,
                   written, fs0, dirs0, prevDone>>

\* Variant of ForNext that walks the list from its end.
ForNextReversed ==
    /\ pc = "for"
    /\ it < Len(sizes)
    /\ it' = it + 1
    /\ size' = sizes[Len(sizes) - it]
    /\ pc' = "new"
    /\ UNCHANGED <<run, dirs, fs, img, filename, stdout, err,
                   written, mkCalls, fs0, dirs0, prevDone>>

\* for size in sizes: the iterator hands out the next item.
ForNext ==
    /\ pc = "for"
    /\ it < Len(sizes)
    /\ it' = it + 1
    /\ size' = sizes[it + 1]
    /\ pc' = "new"
    /\ UNCHANGED <<run, dirs, fs, img, filename, stdout, err,
                   written, mkCalls, fs0, dirs0, prevDone>>

\* Variant of ForExit that may leave the loop one item early.
ForExitEarly ==
    /\ pc = "for"
    /\ it >= Len(sizes) - 1
    /\ pc' = "final"
    /\ UNCHANGED <<run, dirs, fs, it, size, img, filename, stdout, err,
                   written, mkCalls, fs0, dirs0, prevDone>>

\* for size in sizes: the iterator is exhausted.
ForExit ==
    /\ pc = "for"
    /\ it >= Len(sizes)
    /\ pc' = "final"
    /\ UNCHANGED <<run, dirs, fs, it, size, img, filename, stdout, err,
                   written, mkCalls, fs0, dirs0, prevDone>>

\* Variant of NewImage with an opaque white background.
NewImageOpaque ==
    /\ pc = "new"
    /\ img' = ImageNew("RGBA", size, size, <<255, 255, 255, 255>>)
    /\ pc' = "ellipse"
    /\ UNCHANGED <<run, dirs, fs, it, size, filename, stdout, err,
                   written, mkCalls, fs0, dirs0, prevDone>>

\* img = Image.new('RGBA', (size, size), (0, 0, 0, 0))
NewImage ==
    /\ pc = "new"
    /\ img' = ImageNew("RGBA", size, size, Transparent)
    /\ pc' = "ellipse"
    /\ UNCHANGED <<run, dirs, fs, it, size, filename, stdout, err,
                   written, mkCalls, fs0, dirs0, prevDone>>

\* margin = size * 0.05; draw.ellipse([...], fill=green_color, outline=None)
DrawEllipse ==
    /\ pc = "ellipse"
    /\ img' = Ellipse(img, EllipseBox(size), green_color)
    /\ pc' = "save"
    /\ UNCHANGED <<run, dirs, fs, it, size, filename, stdout, err,
                   written, mkCalls, fs0, dirs0, prevDone>>

\* Variant of Save that leaves an existing file alone.
SaveKeepExisting ==
    /\ pc = "save"
    /\ DirExists
    /\ filename' = Filename(size)
    /\ fs' = IF fs[Filename(size)] = Absent
             THEN [fs EXCEPT ![Filename(size)] = PngEncode(img)]
             ELSE fs
    /\ written' = Append(written, size)
    /\ pc' = "print"
    /\ UNCHANGED <<run, dirs, it, size, img, stdout, err,
                   mkCalls, fs0, dirs0, prevDone>>

\* filename = f"..."; img.save(filename, 'PNG') returns: the path holds the
\* encoded image, whatever it held before.
Save ==
    /\ pc = "save"
    /\ DirExists
    /\ filename' = Filename(size)
    /\ fs' = [fs EXCEPT ![Filename(size)] = PngEncode(img)]
    /\ written' = Append(written, size)
    /\ pc' = "print"
    /\ UNCHANGED <<run, dirs, it, size, img, stdout, err,
                   mkCalls, fs0, dirs0, prevDone>>

\* Variant of SaveFail in which the exception is caught and the loop goes on.
SaveFailSwallowed ==
    /\ pc = "save"
    /\ filename' = Filename(size)
    /\ \E c \in (IF DirExists THEN LeftBehind(fs[Filename(size)])
                              ELSE {fs[Filename(size)]}) :
          fs' = [fs EXCEPT ![Filename(size)] = c]
    /\ pc' = "for"
    /\ UNCHANGED <<run, dirs, it, size, img, stdout, err,
                   written, mkCalls, fs0, dirs0, prevDone>>

\* img.save raises (no directory, no permission, disk full, ...): nothing
\* catches it and the script ends.
SaveFail ==
    /\ pc = "save"
    /\ filename' = Filename(size)
    /\ \E c \in (IF DirExists THEN LeftBehind(fs[Filename(size)])
                              ELSE {fs[Filename(size)]}) :
          fs' = [fs EXCEPT ![Filename(size)] = c]
    /\ pc' = "aborted"
    /\ err' = "save"
    /\ UNCHANGED <<run, dirs, it, size, img, stdout,
                   written, mkCalls, fs0, dirs0, prevDone>>

\* Variant of PrintCreated with the completion line indented into the loop.
PrintCreatedAndDone ==
    /\ pc = "print"
    /\ stdout' = stdout \o <<CreatedPrefix \o filename, DoneLine>>
    /\ pc' = "for"
    /\ UNCHANGED <<run, dirs, fs, it, size, img, filename, err,
                   written, mkCalls, fs0, dirs0, prevDone>>

\* Variant of PrintCreated that prints the directory instead of the file.
PrintCreatedDirOnly ==
    /\ pc = "print"
    /\ stdout' = Append(stdout, CreatedPrefix \o icon_dir)
    /\ pc' = "for"
    /\ UNCHANGED <<run, dirs, fs, it, size, img, filename, err,
                   written, mkCalls, fs0, dirs0, prevDone>>

\* print(f"Created {filename}")
PrintCreated ==
    /\ pc = "print"
    /\ stdout' = Append(stdout, CreatedPrefix \o filename)
    /\ pc' = "for"
    /\ UNCHANGED <<run, dirs, fs, it, size, img, filename, err,
                   written, mkCalls, fs0, dirs0, prevDone>>

\* print("All icons generated successfully!")
PrintDone ==
    /\ pc = "final"
    /\ stdout' = Append(stdout, DoneLine)
    /\ pc' = "done"
    /\ UNCHANGED <<run, dirs, fs, it, size, img, filename, err,
                   written, mkCalls, fs0, dirs0, prevDone>>

\* The script is invoked again after it has ended: a new process over the
\* filesystem the last one left.
StartRun ==
    /\ pc \in {"done", "aborted"}
    /\ run < MaxRuns
    /\ run' = run + 1
    /\ pc' = "makedirs"
    /\ it' = 0
    /\ size' = 0
    /\ img' = NoImage
    /\ filename' = ""
    /\ stdout' = <<>>
    /\ err' = "none"
    /\ written' = <<>>
    /\ mkCalls' = 0
    /\ fs0' = fs
    /\ dirs0' = dirs
    /\ prevDone' = IF pc = "done" THEN {fs} ELSE {}
    /\ UNCHANGED <<dirs, fs>>

Next ==
    \/ MakeDirs
    \/ MakeDirsFail
    \/ ForNext
    \/ ForExit
    \/ NewImage
    \/ DrawEllipse
    \/ Save
    \/ SaveFail
    \/ PrintCreated
    \/ PrintDone
    \/ StartRun

Spec == Init /\ [][Next]_vars

(* ------------------------- derived notions ----------------------------- *)

\* The buffer the loop body builds for size s (new image, then the ellipse).
Rendered(s) == Ellipse(ImageNew("RGBA", s, s, Transparent), EllipseBox(s), green_color)

\* The files of the directory with an icon's name, listed size or not.
IconLike == Names \ {UnrelatedName}

Present(f) == {n \in Names : f[n] # Absent}

\* The lines of stdout that are not the completion line, in order.
CreatedLines == SelectSeq(stdout, LAMBDA l : l # DoneLine)

DoneCount == Len(SelectSeq(stdout, LAMBDA l : l = DoneLine))

\* The positions of the script inside or after the loop.
InLoop == pc \in {"for", "new", "ellipse", "save", "print"}

Drawn == pc \in {"save", "print"}

Corners(s) == {<<0, 0>>, <<s - 1, 0>>, <<0, s - 1>>, <<s - 1, s - 1>>}

(* ------------------------------- claims -------------------------------- *)

\* C1: when a run that started with no icon-named file in the directory has
\* completed, the icon-named files present are exactly icon_<s>.png for the
\* sizes of the list, each a PNG of s x s pixels.
C1_ExactIconSet ==
    (pc = "done" /\ \A n \in IconLike : fs0[n] = Absent) =>
        /\ Present(fs) \cap IconLike = {Filename(sizes[k]) : k \in 1..Len(sizes)}
        /\ Cardinality(Present(fs) \cap IconLike) = 7
        /\ fs[UnlistedName] = Absent
        /\ fs["MicOn/Assets.xcassets/AppIcon.appiconset/icon_1024.png"] # Absent
        /\ \A k \in 1..Len(sizes) :
              LET f == fs[Filename(sizes[k])]
              IN  IsPng(f) /\ f.width = sizes[k] /\ f.height = sizes[k]

C1_Witness ==
    /\ pc = "done"
    /\ \A n \in IconLike : fs0[n] = Absent
    /\ fs0[UnrelatedName] # Absent
    /\ fs[Filename(512)].width = 512

\* What holds of the files in every aborted run, the file of the failing size
\* apart: the sizes before it were written and their files hold the rendered
\* icons, no save succeeded for it or a later size, and the paths of the later
\* sizes are as the run found them.
AbortedAround ==
    /\ err = "makedirs" => (written = <<>> /\ fs = fs0 /\ it = 0)
    /\ err = "save" =>
          /\ it >= 1
          /\ written = SubSeq(sizes, 1, it - 1)
          /\ \A k \in 1..(it - 1) :
                fs[Filename(sizes[k])] = PngEncode(Rendered(sizes[k]))
          /\ \A k \in (it + 1)..Len(sizes) :
                fs[Filename(sizes[k])] = fs0[Filename(sizes[k])]

\* A step of a save either succeeds or ends the run, and an ended run takes
\* no further step: all that can follow is a new invocation, which starts by
\* leaving the files alone.
FailureEndsRun ==
    /\ pc = "save" => (pc' = "aborted" \/ (pc' = "print" /\ written' = Append(written, size)))
    /\ pc = "makedirs" => (pc' = "aborted" \/ pc' = "for")
    /\ pc = "aborted" => (run' = run + 1 /\ pc' = "makedirs" /\ fs' = fs /\ dirs' = dirs)

\* C2 as stated: after a failure at the k-th size (or at the directory), the
\* earlier files are in place, nothing was written at the path of the k-th or
\* of a later size, and the run takes no further step.
C2_Original ==
    pc = "aborted" =>
        /\ AbortedAround
        /\ err = "save" => fs[Filename(sizes[it])] = fs0[Filename(sizes[it])]

\* C2, amended: as stated, except that the path of the k-th size is either as
\* the run found it or holds the remains of the interrupted write.
C2_AbortedState ==
    pc = "aborted" =>
        /\ AbortedAround
        /\ err = "save" =>
              fs[Filename(sizes[it])] \in {fs0[Filename(sizes[it])], Truncated}

C2_Amended == [](C2_AbortedState) /\ [][FailureEndsRun]_vars

C2_Witness ==
    /\ pc = "aborted"
    /\ err = "save"
    /\ it = 3
    /\ fs0[Filename(sizes[3])] = Stale
    /\ fs[Filename(sizes[3])] = Truncated

\* C3: the completion line is on the console at most once, only when every
\* size of the list was written in this run, and never in an aborted run.
C3_CompletionLine ==
    /\ DoneCount <= 1
    /\ DoneCount = 1 =>
          /\ pc = "done"
          /\ written = sizes
          /\ \A k \in 1..Len(sizes) : IsPng(fs[Filename(sizes[k])])
    /\ pc = "aborted" => DoneCount = 0
    /\ pc = "done" => stdout[Len(stdout)] = DoneLine

C3_Witness == pc = "done" /\ DoneCount = 1 /\ written = sizes /\ run = 2

\* C4: os.makedirs is called once per run, before the loop; inside and after
\* the loop, and whenever a file has been written, the directory exists; and
\* no step removes the directory.
C4_DirState ==
    /\ mkCalls = (IF pc = "makedirs" THEN 0 ELSE 1)
    /\ (InLoop \/ pc \in {"final", "done"}) => DirExists
    /\ written # <<>> => DirExists

C4_DirOnceNeverDeleted == [](C4_DirState) /\ [][DirExists => DirExists']_vars

C4_Witness == dirs0 = 0 /\ Len(written) >= 1 /\ DirExists /\ mkCalls = 1

\* C5: a run that finds the directory in place does not fail at os.makedirs,
\* and leaves every file that is not icon_<s>.png of a listed size as it was.
C5_ExistingDirKept ==
    dirs0 = Len(DirParts) =>
        /\ err # "makedirs"
        /\ pc # "makedirs" => DirExists
        /\ \A n \in Names \ IconNames : fs[n] = fs0[n]

C5_Witness ==
    /\ pc = "done"
    /\ dirs0 = Len(DirParts)
    /\ fs0[UnrelatedName] = Stale
    /\ fs0[UnlistedName] = Stale
    /\ fs[UnrelatedName] = Stale

\* C6: a completed run leaves at each icon_<s>.png the rendered icon of s,
\* whatever the path held before; so a completed run that follows a completed
\* run leaves the filesystem as it found it.
C6_Idempotent ==
    pc = "done" =>
        /\ \A k \in 1..Len(sizes) :
              fs[Filename(sizes[k])] = PngEncode(Rendered(sizes[k]))
        /\ prevDone # {} => (prevDone = {fs} /\ fs = fs0 /\ dirs = dirs0)

C6_Witness ==
    /\ pc = "done"
    /\ prevDone = {fs}
    /\ fs[UnlistedName] = Stale

\* C7: the Created lines printed so far name, in order, the files written so
\* far, the last written file possibly not yet printed; after a completed run
\* the console holds the 7 Created lines and then the completion line.
C7_CreatedLines ==
    /\ Len(CreatedLines) = (IF pc = "print" THEN Len(written) - 1 ELSE Len(written))
    /\ \A k \in 1..Len(CreatedLines) :
          /\ CreatedLines[k] = "Created " \o Filename(written[k])
          /\ IsPng(fs[Filename(written[k])])
    /\ pc = "done" =>
          /\ Len(stdout) = 8
          /\ stdout[1] = "Created MicOn/Assets.xcassets/AppIcon.appiconset/icon_16.png"
          /\ \A k \in 1..7 : stdout[k] = "Created " \o Filename(sizes[k])
          /\ stdout[8] = "All icons generated successfully!"

C7_Witness == pc = "done" /\ Len(stdout) = 8 /\ Len(CreatedLines) = 7

\* C8: a new buffer is transparent everywhere, the inscribed disc reaches no
\* corner pixel, and so the four corners of every drawn buffer, and of every
\* file saved from it, have alpha 0.
C8_CornersTransparent ==
    /\ pc = "ellipse" => (img.bg[4] = 0 /\ img.shapes = <<>>)
    /\ Drawn =>
          \A c \in Corners(size) :
              /\ Region(EllipseBox(size), c[1], c[2]) = "out"
              /\ \A v \in GetPixel(img, c[1], c[2]) : v[4] = 0
    /\ \A k \in 1..Len(written) :
          \A c \in Corners(written[k]) :
              \A v \in GetPixel(PngDecode(fs[Filename(written[k])]), c[1], c[2]) :
                  v[4] = 0

C8_Witness ==
    /\ pc = "print"
    /\ size = 16
    /\ EllipseBox(size) = <<0, 0, 15, 15>>
    /\ GetPixel(img, 15, 15) = {<<0, 0, 0, 0>>}

\* C9 as stated: the centre pixel equals the configured fill colour, an RGBA
\* value of 4 channel bytes.
C9_Original ==
    Drawn =>
        /\ Len(green_color) = 4
        /\ GetPixel(img, size \div 2, size \div 2) = {green_color}

\* C9, amended: the configured fill colour is the 3 RGB channels (52, 199, 89)
\* and the centre pixel is that colour with opaque alpha, (52, 199, 89, 255).
C9_CentreIsOpaqueGreen ==
    /\ green_color = <<52, 199, 89>>
    /\ Drawn =>
          /\ Region(EllipseBox(size), size \div 2, size \div 2) = "in"
          /\ GetPixel(img, size \div 2, size \div 2) = {<<52, 199, 89, 255>>}
          /\ GetPixel(img, size \div 2, size \div 2) = {Append(green_color, 255)}
    /\ \A k \in 1..Len(written) :
          GetPixel(PngDecode(fs[Filename(written[k])]),
                   written[k] \div 2, written[k] \div 2) = {<<52, 199, 89, 255>>}

C9_Witness ==
    /\ pc = "print"
    /\ size = 1024
    /\ GetPixel(PngDecode(fs[filename]), 512, 512) = {<<52, 199, 89, 255>>}

\* C10: in every state of a run the sizes written so far are a prefix of the
\* list, in list order and each once, and the loop is at most one size ahead
\* of them.
C10_WrittenIsPrefix ==
    /\ Len(written) <= Len(sizes)
    /\ written = SubSeq(sizes, 1, Len(written))
    /\ \A j, k \in 1..Len(written) : written[j] = written[k] => j = k
    /\ Len(written) \in {it, it - 1}
    /\ pc = "print" => written[Len(written)] = size

C10_Witness == pc = "aborted" /\ err = "save" /\ written = <<16, 32, 64>>

====
